---- MODULE Spec2Model ----
(***************************************************************************)
(* A model of framebuffer.c: get_framebuffer and release_framebuffer       *)
(* acting on one struct framebuffer, against a DRM device whose calls may  *)
(* succeed or fail.  The program is single threaded; pc is its position.   *)
(* A resource counts as held from the call that acquires it until the      *)
(* call that releases it (close, drmModeFree*, DESTROY_DUMB, RmFB, munmap).*)
(***************************************************************************)
EXTENDS Integers, Sequences, FiniteSets, TLC

(* ------------------------------ bounds -------------------------------- *)
\* calls of get_framebuffer and of release_framebuffer the caller makes
MaxGets == 2
MaxReleases == 2
\* longest mode list the mode selection is tried on
MaxModes == 4

(* ------------------------- program constants -------------------------- *)
EINVAL == 22
ENOMEM == 12
\* MAP_FAILED, (void *) -1
MAP_FAILED == 0 - 1
\* first descriptor open() can return while stdin, stdout, stderr are open
FirstFd == 3
\* no descriptor holds DRM master
NoMaster == 0
NULL == 0

(* ------------------------- connector names ---------------------------- *)
\* static const struct type_name connector_type_names[], as <<type, name>>
connector_type_names ==
  << <<0, "unknown">>, <<1, "VGA">>, <<2, "DVI-I">>, <<3, "DVI-D">>,
     <<4, "DVI-A">>, <<5, "composite">>, <<6, "s-video">>, <<7, "LVDS">>,
     <<8, "component">>, <<9, "9-pin DIN">>, <<10, "DP">>, <<11, "HDMI-A">>,
     <<12, "HDMI-B">>, <<13, "TV">>, <<14, "eDP">>, <<15, "Virtual">>,
     <<16, "DSI">>, <<17, "DPI">> >>

\* ARRAY_SIZE(connector_type_names)
ARRAY_SIZE == Len(connector_type_names)

\* the lookup as it would be with the bound one too low
connector_type_name_short(type) ==
  IF type < ARRAY_SIZE - 1 /\ type >= 0
    THEN connector_type_names[type + 1][2]
    ELSE "INVALID"

\* const char *connector_type_name(unsigned int type): C index type is
\* sequence index type + 1
connector_type_name(type) ==
  IF type < ARRAY_SIZE /\ type >= 0
    THEN connector_type_names[type + 1][2]
    ELSE "INVALID"

\* snprintf(name, sizeof(name), "%s-%u", ...): at most 31 characters kept
NameOf(type, type_id) ==
  LET s == connector_type_name(type) \o "-" \o ToString(type_id)
  IN  IF Len(s) > 31 THEN SubSeq(s, 1, 31) ELSE s

\* strncmp(name, connector_name, sizeof(name)) == 0
NameMatches(name, connector_name) ==
  LET a == IF Len(name) > 32 THEN SubSeq(name, 1, 32) ELSE name
      b == IF Len(connector_name) > 32 THEN SubSeq(connector_name, 1, 32)
                                       ELSE connector_name
  IN  a = b

(* ------------------------------ device -------------------------------- *)
\* drmModeModeInfo: hdisplay stands for the timings, preferred for
\* type & DRM_MODE_TYPE_PREFERRED
Mode(h, p) == [hdisplay |-> h, preferred |-> p]

\* res->connectors: the connectors the device lists, as
\* <<connector_id, connector_type, connector_type_id, modes>>: a VGA output
\* with nothing attached and an HDMI output with two modes
DevConnectors ==
  << <<31, 1, 1, <<>> >>,
     <<32, 11, 1, <<Mode(1, FALSE), Mode(2, TRUE)>> >> >>
\* the mode the controller shows before the program runs
PriorMode == 2
\* selected_resolution arguments tried: automatic and the first mode
SelectedResolutions == {0 - 1, 0}
\* the encoder and the CRTC of the device, and the framebuffer bound before
DevEncoder == 41
DevCrtc == 51
PriorFb == 61
\* connector_name arguments tried: the second connector and the first
RequestedNames == {"HDMI-A-1", "VGA-1"}

\* largest connector type the name lookup is tried on, besides INT_MAX
MaxType == 60
\* unsigned int type arguments tried
TypeInputs == (0..MaxType) \cup {2147483647}

\* the mode lists of at most n modes; the k-th mode has hdisplay k
ModeLists(n) ==
  UNION {{[k \in 1..len |-> Mode(k, p[k])] : p \in [1..len -> BOOLEAN]} :
           len \in 0..n}

(* ------------------------------- state -------------------------------- *)
VARIABLES
  pc,                  \* position of the program
  retTo,               \* who called release_framebuffer: "caller" or "get"
  fb,                  \* struct framebuffer *fb
  entry,               \* *fb, kernel and heap on entry of the current
                       \* (last) top-level call
  connector_name,      \* arguments of get_framebuffer
  selected_resolution,
  fd, res, connector, idx, resolution, encoder, err,   \* its locals
  openFds,             \* descriptors open in the process
  master,              \* the descriptor holding DRM master, or NoMaster
  fbs,                 \* <<fd, id>> of framebuffers registered, not removed
  dumbs,               \* <<fd, handle>> of dumb buffers created, not destroyed
  maps,                \* addresses of mappings made, not unmapped
  crtc,                \* live configuration of the controller
  heap,                \* objects libdrm allocated: heap[p] is *p
  log,                 \* calls made in the current top-level call, in order
  hist,                \* top-level calls completed so far
  ret,                 \* value the last get_framebuffer returned
  faults,              \* undefined behaviour the current top-level call executed
  modes_in,            \* a mode list, a requested index and the mode selected
                       \* (used by SelSpec only)
  type_in              \* a connector type and the name found for it
                       \* (used by NameSpec only)

locals == <<connector_name, selected_resolution, fd, res, connector, idx,
            resolution, encoder, err>>
kernel == <<openFds, master, fbs, dumbs, maps, crtc>>
vars == <<pc, retTo, fb, entry, locals, kernel, heap, log, hist, ret, faults,
          modes_in,
                 type_in>>

\* a pointer into connector->modes: the connector and the index
ModePtr(c, k) == [connector |-> c, index |-> k]
\* the null drmModeModeInfoPtr
NullMode == [connector |-> NULL, index |-> 0]

\* struct framebuffer after memset(fb, 0, sizeof(*fb))
ZeroFb ==
  [fd |-> 0, crtc |-> NULL, buffer_id |-> 0, connector |-> NULL,
   resolution |-> NullMode,
   dumb_framebuffer |-> [height |-> 0, width |-> 0, bpp |-> 0, handle |-> 0,
                         pitch |-> 0, size |-> 0],
   data |-> NULL]

\* an object of the heap; payload fields not of its kind stay 0 / <<>>
Obj(kind) ==
  [kind |-> kind, frees |-> 0, id |-> 0, buffer_id |-> 0, mode |-> 0,
   modes |-> <<>>, crtc_id |-> 0]

\* malloc: the next object
NewPtr == Len(heap) + 1
\* free(p): p is freed once more and its content is no longer defined
Freed(h, p) == [h EXCEPT ![p] = [Obj(@.kind) EXCEPT !.frees = h[p].frees + 1]]
Live(p) == p # NULL /\ heap[p].frees = 0
\* pointers of one kind that are allocated and not freed
LiveOf(kind) == {p \in 1..Len(heap) : heap[p].kind = kind /\ heap[p].frees = 0}

Call(op, arg) == <<op, arg>>

\* open(): the lowest descriptor not in use
LowestFd == CHOOSE n \in FirstFd..(FirstFd + MaxGets) :
              n \notin openFds /\ \A m \in FirstFd..(n - 1) : m \in openFds
\* the kernel's next framebuffer id
FbIds == {f[2] : f \in fbs}
NextFbId == CHOOSE n \in (PriorFb + 1)..(PriorFb + MaxGets + 1) :
              n \notin FbIds /\ \A m \in (PriorFb + 1)..(n - 1) : m \in FbIds
\* the kernel's next GEM handle of the file f
NextHandle(f) == CHOOSE n \in 1..(MaxGets + 1) :
                   <<f, n>> \notin dumbs /\ \A m \in 1..(n - 1) : <<f, m>> \in dumbs
\* mmap(0, ...): an address not mapped yet
NextMap == Cardinality(maps) + 1

(* ---------------------------- mode selection -------------------------- *)
\* the scan as it would be with a break on the first preferred mode
RECURSIVE ScanPreferredFirst(_, _, _)
ScanPreferredFirst(modes, k, found) ==
  IF k >= Len(modes) THEN found
  ELSE IF modes[k + 1].preferred THEN k
  ELSE ScanPreferredFirst(modes, k + 1, found)

\* lines 130-135: the scan keeps the last preferred mode; k is the C index
RECURSIVE ScanPreferred(_, _, _)
ScanPreferred(modes, k, found) ==
  IF k >= Len(modes) THEN found
  ELSE ScanPreferred(modes, k + 1,
                     IF modes[k + 1].preferred THEN k ELSE found)

\* lines 125-140: the C index of the mode chosen; -1 stands for the null
\* pointer between the scan and the fallback
SelectMode(modes, sel) ==
  LET r == IF sel >= 0 /\ sel < Len(modes) THEN sel
           ELSE ScanPreferred(modes, 0, 0 - 1)
  IN  IF r = 0 - 1 THEN 0 ELSE r

(* ------------------------------- start -------------------------------- *)
DeadLocals ==
  /\ connector_name' = "" /\ selected_resolution' = 0
  /\ fd' = 0 /\ res' = NULL /\ connector' = NULL /\ idx' = 0
  /\ resolution' = NullMode /\ encoder' = NULL /\ err' = 0

\* the caller's struct framebuffer is zeroed; the controller shows PriorFb
\* in some mode; stdin, stdout and stderr are the only descriptors open
InitProgram ==
  /\ pc = "idle" /\ retTo = "caller"
  /\ fb = ZeroFb
  /\ connector_name = "" /\ selected_resolution = 0
  /\ fd = 0 /\ res = NULL /\ connector = NULL /\ idx = 0
  /\ resolution = NullMode /\ encoder = NULL /\ err = 0
  /\ openFds = {} /\ master = NoMaster /\ fbs = {} /\ dumbs = {} /\ maps = {}
  /\ crtc = [buffer_id |-> PriorFb, mode |-> PriorMode]
  /\ heap = <<>> /\ log = <<>> /\ hist = <<>> /\ ret = 0 /\ faults = {}
  /\ entry = [fb |-> fb, openFds |-> openFds, master |-> master, fbs |-> fbs,
              dumbs |-> dumbs, maps |-> maps, crtc |-> crtc, heap |-> heap]

Init == InitProgram /\ modes_in = <<>> /\ type_in = <<>>

\* what a top-level call finds on entry
Snapshot ==
  [fb |-> fb, openFds |-> openFds, master |-> master, fbs |-> fbs,
   dumbs |-> dumbs, maps |-> maps, crtc |-> crtc, heap |-> heap]

\* calls completed
Gets == Cardinality({k \in 1..Len(hist) : hist[k] # "release"})
Releases == Cardinality({k \in 1..Len(hist) : hist[k] = "release"})

(* --------------------------- get_framebuffer -------------------------- *)
\* return v; of get_framebuffer
Return(v) ==
  /\ pc' = "idle" /\ ret' = v
  /\ hist' = Append(hist, IF v = 0 THEN "get_ok" ELSE "get_err")
  /\ DeadLocals

\* the caller calls get_framebuffer(dri_device, connector_name, fb, selected_resolution)
CallGet ==
  /\ pc = "idle" /\ Gets < MaxGets
  /\ \E name \in RequestedNames, sel \in SelectedResolutions :
       /\ connector_name' = name /\ selected_resolution' = sel
  /\ pc' = "open" /\ entry' = Snapshot /\ log' = <<>> /\ faults' = {}
  /\ UNCHANGED <<retTo, fb, fd, res, connector, idx, resolution, encoder, err,
                 kernel, heap, hist, ret, modes_in,
                 type_in>>

\* lines 82-86: fd = open(dri_device, O_RDWR); the first opener of the
\* device becomes its master
Open ==
  /\ pc = "open"
  /\ \/ /\ log' = Append(log, Call("open", 0 - 1))
        /\ Return(0 - EINVAL)
        /\ UNCHANGED <<kernel>>
     \/ /\ log' = Append(log, Call("open", LowestFd))
        /\ fd' = LowestFd
        /\ openFds' = openFds \cup {LowestFd}
        /\ master' = IF master = NoMaster THEN LowestFd ELSE master
        /\ pc' = "getres"
        /\ UNCHANGED <<connector_name, selected_resolution, res, connector,
                       idx, resolution, encoder, err, fbs, dumbs, maps, crtc,
                       hist, ret>>
  /\ UNCHANGED <<retTo, fb, entry, heap, faults, modes_in,
                 type_in>>

\* lines 89-93: res = drmModeGetResources(fd)
GetResources ==
  /\ pc = "getres"
  /\ log' = Append(log, Call("drmModeGetResources", fd))
  /\ \/ /\ Return(0 - EINVAL)
        /\ UNCHANGED heap
     \/ /\ heap' = Append(heap, Obj("res"))
        /\ res' = NewPtr
        /\ idx' = 0 /\ connector' = NULL
        /\ pc' = "loop"
        /\ UNCHANGED <<connector_name, selected_resolution, fd, resolution,
                       encoder, err, hist, ret>>
  /\ UNCHANGED <<retTo, fb, entry, kernel, faults, modes_in,
                 type_in>>

\* lines 97-112 as they would be without the drmModeFreeConnector call of
\* line 109
ConnectorLoopKeeps ==
  /\ pc = "loop" /\ idx < Len(DevConnectors)
  /\ \/ /\ connector' = NULL /\ idx' = idx + 1
        /\ log' = Append(log, Call("drmModeGetConnectorCurrent", NULL))
        /\ UNCHANGED <<pc, heap>>
     \/ LET c == DevConnectors[idx + 1]
            name == NameOf(c[2], c[3])
            o == [Obj("connector") EXCEPT !.id = c[1], !.modes = c[4]]
        IN  /\ heap' = Append(heap, o)
            /\ log' = Append(log, Call("drmModeGetConnectorCurrent", NewPtr))
            /\ IF NameMatches(name, connector_name)
                 THEN /\ connector' = NewPtr
                      /\ pc' = "found"
                      /\ UNCHANGED idx
                 ELSE /\ connector' = NULL /\ idx' = idx + 1
                      /\ UNCHANGED pc
  /\ UNCHANGED <<retTo, fb, entry, connector_name, selected_resolution, fd, res,
                 resolution, encoder, err, kernel, hist, ret, faults, modes_in,
                 type_in>>

\* lines 97-112, one iteration: fetch connector idx, build its name, break
\* on a match, else free it.  The log keeps the pointer each call returned.
\* A connector fetched and freed within the iteration leaves the heap as it
\* was: its address is free for the next allocation
ConnectorLoop ==
  /\ pc = "loop" /\ idx < Len(DevConnectors)
  /\ \/ /\ connector' = NULL /\ idx' = idx + 1          \* line 101-102
        /\ log' = Append(log, Call("drmModeGetConnectorCurrent", NULL))
        /\ UNCHANGED <<pc, heap>>
     \/ LET c == DevConnectors[idx + 1]
            name == NameOf(c[2], c[3])
            o == [Obj("connector") EXCEPT !.id = c[1], !.modes = c[4]]
        IN        IF NameMatches(name, connector_name)
                    THEN /\ heap' = Append(heap, o)
                         /\ connector' = NewPtr
                         /\ log' = Append(log,
                                     Call("drmModeGetConnectorCurrent", NewPtr))
                         /\ pc' = "found"
                         /\ UNCHANGED idx
                    ELSE /\ heap' = heap
                         /\ connector' = NULL /\ idx' = idx + 1
                         /\ log' = log \o
                              <<Call("drmModeGetConnectorCurrent", NewPtr),
                                Call("drmModeFreeConnector", NewPtr)>>
                         /\ UNCHANGED pc
  /\ UNCHANGED <<retTo, fb, entry, connector_name, selected_resolution, fd, res,
                 resolution, encoder, err, kernel, hist, ret, faults, modes_in,
                 type_in>>

\* line 97: the loop ends with i == res->count_connectors
LoopExit ==
  /\ pc = "loop" /\ idx >= Len(DevConnectors)
  /\ pc' = "found"
  /\ UNCHANGED <<retTo, fb, entry, locals, kernel, heap, log, hist, ret, faults,
                 modes_in,
                 type_in>>

\* lines 114-117
ConnectorCheck ==
  /\ pc = "found"
  /\ IF connector = NULL
       THEN Return(0 - EINVAL)
       ELSE /\ pc' = "modes"
            /\ UNCHANGED <<locals, hist, ret>>
  /\ UNCHANGED <<retTo, fb, entry, kernel, heap, log, faults, modes_in,
                 type_in>>

\* lines 119-122 as they would be without the check: a connector with no
\* mode goes on to the allocation
ModesCheckDropped ==
  /\ pc = "modes"
  /\ pc' = IF Len(heap[connector].modes) <= 0 THEN "create" ELSE "select"
  /\ UNCHANGED <<retTo, fb, entry, locals, hist, ret, kernel, heap, log,
                 faults, modes_in,
                 type_in>>

\* lines 119-122
ModesCheck ==
  /\ pc = "modes"
  /\ IF Len(heap[connector].modes) <= 0
       THEN Return(0 - EINVAL)
       ELSE /\ pc' = "select"
            /\ UNCHANGED <<locals, hist, ret>>
  /\ UNCHANGED <<retTo, fb, entry, kernel, heap, log, faults, modes_in,
                 type_in>>

\* lines 125-144 as they would be if the mode chosen were stored in the
\* handle at once
SelectResolutionStores ==
  /\ pc = "select"
  /\ LET k == SelectMode(heap[connector].modes, selected_resolution)
         m == heap[connector].modes[k + 1]
     IN  /\ resolution' = ModePtr(connector, k)
         /\ fb' = [fb EXCEPT !.dumb_framebuffer.height = m.hdisplay,
                             !.dumb_framebuffer.width = m.hdisplay,
                             !.dumb_framebuffer.bpp = 32,
                             !.resolution = ModePtr(connector, k)]
  /\ pc' = "create"
  /\ UNCHANGED <<retTo, entry, connector_name, selected_resolution, fd, res,
                 connector, idx, encoder, err, kernel, heap, log, hist, ret,
                 faults, modes_in,
                 type_in>>

\* lines 125-144: choose the mode and size the dumb buffer after it
SelectResolution ==
  /\ pc = "select"
  /\ LET k == SelectMode(heap[connector].modes, selected_resolution)
         m == heap[connector].modes[k + 1]
     IN  /\ resolution' = ModePtr(connector, k)
         /\ fb' = [fb EXCEPT !.dumb_framebuffer.height = m.hdisplay,
                             !.dumb_framebuffer.width = m.hdisplay,
                             !.dumb_framebuffer.bpp = 32]
  /\ pc' = "create"
  /\ UNCHANGED <<retTo, entry, connector_name, selected_resolution, fd, res,
                 connector, idx, encoder, err, kernel, heap, log, hist, ret,
                 faults, modes_in,
                 type_in>>

\* lines 146-150: err = ioctl(fd, DRM_IOCTL_MODE_CREATE_DUMB, &fb->dumb_framebuffer);
\* a failing call leaves handle, pitch and size as they were or zeroed
CreateDumb ==
  /\ pc = "create"
  /\ log' = Append(log, Call("DRM_IOCTL_MODE_CREATE_DUMB", fd))
  /\ \/ /\ err' = 0 - 1
        /\ \/ fb' = fb
           \/ fb' = [fb EXCEPT !.dumb_framebuffer.handle = 0,
                               !.dumb_framebuffer.pitch = 0,
                               !.dumb_framebuffer.size = 0]
        /\ pc' = "cleanup"
        /\ UNCHANGED dumbs
     \/ /\ err' = 0
        /\ LET d == fb.dumb_framebuffer
           IN  fb' = [fb EXCEPT !.dumb_framebuffer.handle = NextHandle(fd),
                                !.dumb_framebuffer.pitch = 4 * d.width,
                                !.dumb_framebuffer.size = 4 * d.width * d.height]
        /\ dumbs' = dumbs \cup {<<fd, NextHandle(fd)>>}
        /\ pc' = "addfb"
  /\ UNCHANGED <<retTo, entry, connector_name, selected_resolution, fd, res,
                 connector, idx, resolution, encoder, openFds, master, fbs,
                 maps, crtc, heap, hist, ret, faults, modes_in,
                 type_in>>

\* lines 152-160 as they would be without the goto cleanup of line 159
AddFB2Continues ==
  /\ pc = "addfb"
  /\ log' = Append(log, Call("drmModeAddFB2", fd))
  /\ \/ /\ err' = 0 - EINVAL
        /\ pc' = "getenc"
        /\ UNCHANGED <<fb, fbs>>
     \/ /\ err' = 0
        /\ fb' = [fb EXCEPT !.buffer_id = NextFbId]
        /\ fbs' = fbs \cup {<<fd, NextFbId>>}
        /\ pc' = "getenc"
  /\ UNCHANGED <<retTo, entry, connector_name, selected_resolution, fd, res,
                 connector, idx, resolution, encoder, openFds, master, dumbs,
                 maps, crtc, heap, hist, ret, faults, modes_in,
                 type_in>>

\* lines 152-160: err = drmModeAddFB2(fd, ..., &fb->buffer_id, 0)
AddFB2 ==
  /\ pc = "addfb"
  /\ log' = Append(log, Call("drmModeAddFB2", fd))
  /\ \/ /\ err' = 0 - EINVAL
        /\ pc' = "cleanup"
        /\ UNCHANGED <<fb, fbs>>
     \/ /\ err' = 0
        /\ fb' = [fb EXCEPT !.buffer_id = NextFbId]
        /\ fbs' = fbs \cup {<<fd, NextFbId>>}
        /\ pc' = "getenc"
  /\ UNCHANGED <<retTo, entry, connector_name, selected_resolution, fd, res,
                 connector, idx, resolution, encoder, openFds, master, dumbs,
                 maps, crtc, heap, hist, ret, faults, modes_in,
                 type_in>>

\* lines 162-167: encoder = drmModeGetEncoder(fd, connector->encoder_id ?
\* connector->encoder_id : connector->encoders[0]); encoders[0] of a
\* connector that lists no encoder is a read outside the array.  What the
\* connector says of its encoders is drawn here, where it is first read
GetEncoder ==
  /\ pc = "getenc"
  /\ \E encoder_id \in {0, DevEncoder}, encoders \in {<<>>, <<DevEncoder>>} :
     LET oob == encoder_id = 0 /\ encoders = <<>>
     IN  /\ faults' = IF oob THEN faults \cup {"read encoders[0]"} ELSE faults
         /\ \/ /\ oob /\ pc' = "aborted"
               /\ UNCHANGED <<heap, log, encoder, err>>
            \/ /\ log' = Append(log, Call("drmModeGetEncoder", fd))
               /\ \/ /\ encoder' = NULL /\ err' = 0 - EINVAL
                     /\ pc' = "cleanup"
                     /\ UNCHANGED heap
                  \/ /\ heap' = Append(heap, [Obj("encoder") EXCEPT
                                                !.id = DevEncoder])
                     /\ encoder' = NewPtr
                     /\ pc' = "getcrtc"
                     /\ UNCHANGED err
  /\ UNCHANGED <<retTo, fb, entry, connector_name, selected_resolution, fd, res,
                 connector, idx, resolution, kernel, hist, ret, modes_in,
                 type_in>>

\* lines 170-175 as they would be if the CRTC were also pointed at the new
\* framebuffer there
GetCrtcSets ==
  /\ pc = "getcrtc"
  /\ \E crtc_id \in {0, DevCrtc}, crtcs \in {<<>>, <<DevCrtc>>} :
     LET oob == crtc_id = 0 /\ crtcs = <<>>
     IN  /\ faults' = IF oob THEN faults \cup {"read crtcs[0]"} ELSE faults
         /\ \/ /\ oob /\ pc' = "aborted"
               /\ UNCHANGED <<heap, log, fb, err, crtc>>
            \/ /\ log' = Append(log, Call("drmModeGetCrtc", fd))
               /\ \/ /\ fb' = [fb EXCEPT !.crtc = NULL]
                     /\ err' = 0 - EINVAL
                     /\ pc' = "cleanup"
                     /\ UNCHANGED <<heap, crtc>>
                  \/ /\ heap' = Append(heap, [Obj("crtc") EXCEPT
                                  !.crtc_id = DevCrtc,
                                  !.buffer_id = crtc.buffer_id,
                                  !.mode = crtc.mode])
                     /\ fb' = [fb EXCEPT !.crtc = NewPtr]
                     /\ crtc' = [crtc EXCEPT !.buffer_id = fb.buffer_id]
                     /\ pc' = "mapdumb"
                     /\ UNCHANGED err
  /\ UNCHANGED <<retTo, entry, connector_name, selected_resolution, fd, res,
                 connector, idx, resolution, encoder, openFds, master, fbs,
                 dumbs, maps, hist, ret, modes_in, type_in>>

\* lines 170-175: fb->crtc = drmModeGetCrtc(fd, encoder->crtc_id ?
\* encoder->crtc_id : res->crtcs[0]); the object returned is a copy of the
\* controller's configuration.  encoder->crtc_id and res->crtcs are drawn
\* here, where they are first read
GetCrtc ==
  /\ pc = "getcrtc"
  /\ \E crtc_id \in {0, DevCrtc}, crtcs \in {<<>>, <<DevCrtc>>} :
     LET oob == crtc_id = 0 /\ crtcs = <<>>
     IN  /\ faults' = IF oob THEN faults \cup {"read crtcs[0]"} ELSE faults
         /\ \/ /\ oob /\ pc' = "aborted"
               /\ UNCHANGED <<heap, log, fb, err>>
            \/ /\ log' = Append(log, Call("drmModeGetCrtc", fd))
               /\ \/ /\ fb' = [fb EXCEPT !.crtc = NULL]
                     /\ err' = 0 - EINVAL
                     /\ pc' = "cleanup"
                     /\ UNCHANGED heap
                  \/ /\ heap' = Append(heap, [Obj("crtc") EXCEPT
                                  !.crtc_id = DevCrtc,
                                  !.buffer_id = crtc.buffer_id,
                                  !.mode = crtc.mode])
                     /\ fb' = [fb EXCEPT !.crtc = NewPtr]
                     /\ pc' = "mapdumb"
                     /\ UNCHANGED err
  /\ UNCHANGED <<retTo, entry, connector_name, selected_resolution, fd, res,
                 connector, idx, resolution, encoder, kernel, hist, ret,
                 modes_in,
                 type_in>>

\* lines 177-186: err = drmIoctl(fd, DRM_IOCTL_MODE_MAP_DUMB, &mreq)
MapDumb ==
  /\ pc = "mapdumb"
  /\ log' = Append(log, Call("DRM_IOCTL_MODE_MAP_DUMB", fd))
  /\ \/ err' = 0 - 1 /\ pc' = "cleanup"
     \/ err' = 0 /\ pc' = "mmap"
  /\ UNCHANGED <<retTo, fb, entry, connector_name, selected_resolution, fd, res,
                 connector, idx, resolution, encoder, kernel, heap, hist, ret,
                 faults, modes_in,
                 type_in>>

\* lines 188-193 as they would be with err left alone on MAP_FAILED
MmapKeepsErr ==
  /\ pc = "mmap"
  /\ log' = Append(log, Call("mmap", fd))
  /\ \/ /\ fb' = [fb EXCEPT !.data = MAP_FAILED]
        /\ pc' = "cleanup"
        /\ UNCHANGED <<maps, err>>
     \/ /\ fb' = [fb EXCEPT !.data = NextMap]
        /\ maps' = maps \cup {NextMap}
        /\ pc' = "drop"
        /\ UNCHANGED err
  /\ UNCHANGED <<retTo, entry, connector_name, selected_resolution, fd, res,
                 connector, idx, resolution, encoder, openFds, master, fbs,
                 dumbs, crtc, heap, hist, ret, faults, modes_in,
                 type_in>>

\* lines 188-193: fb->data = mmap(...); err = errno on MAP_FAILED
Mmap ==
  /\ pc = "mmap"
  /\ log' = Append(log, Call("mmap", fd))
  /\ \/ /\ fb' = [fb EXCEPT !.data = MAP_FAILED]
        /\ err' = ENOMEM
        /\ pc' = "cleanup"
        /\ UNCHANGED maps
     \/ /\ fb' = [fb EXCEPT !.data = NextMap]
        /\ maps' = maps \cup {NextMap}
        /\ pc' = "drop"
        /\ UNCHANGED err
  /\ UNCHANGED <<retTo, entry, connector_name, selected_resolution, fd, res,
                 connector, idx, resolution, encoder, openFds, master, fbs,
                 dumbs, crtc, heap, hist, ret, faults, modes_in,
                 type_in>>

\* lines 196-200 as they would be without the drmDropMaster call
DropMasterSkipped ==
  /\ pc = "drop"
  /\ fb' = [fb EXCEPT !.fd = fd, !.connector = connector,
                      !.resolution = resolution]
  /\ pc' = "cleanup"
  /\ UNCHANGED <<retTo, entry, locals, kernel, heap, log, hist, ret, faults,
                 modes_in,
                 type_in>>

\* lines 196-200: drmDropMaster(fd); then the handle gets fd, connector and
\* resolution
DropMaster ==
  /\ pc = "drop"
  /\ log' = Append(log, Call("drmDropMaster", fd))
  /\ master' = IF master = fd THEN NoMaster ELSE master
  /\ fb' = [fb EXCEPT !.fd = fd, !.connector = connector,
                      !.resolution = resolution]
  /\ pc' = "cleanup"
  /\ UNCHANGED <<retTo, entry, locals, openFds, fbs, dumbs, maps, crtc, heap,
                 hist, ret, faults, modes_in,
                 type_in>>

\* lines 202-208: free the encoder; on an error call release_framebuffer(fb)
Cleanup ==
  /\ pc = "cleanup"
  /\ heap' = IF encoder # NULL THEN Freed(heap, encoder) ELSE heap
  /\ log' = log
       \o (IF encoder # NULL
             THEN <<Call("drmModeFreeEncoder", encoder)>> ELSE <<>>)
       \o (IF err # 0 THEN <<Call("release_framebuffer", 0)>> ELSE <<>>)
  /\ IF err # 0
       THEN pc' = "release" /\ retTo' = "get"
       ELSE pc' = "get_ret" /\ UNCHANGED retTo
  /\ UNCHANGED <<fb, entry, locals, kernel, hist, ret, faults, modes_in,
                 type_in>>

\* line 210: return err;
GetReturn ==
  /\ pc = "get_ret"
  /\ Return(err)
  /\ retTo' = "caller"
  /\ UNCHANGED <<fb, entry, kernel, heap, log, faults, modes_in,
                 type_in>>

(* ------------------------- release_framebuffer ------------------------ *)
\* the caller calls release_framebuffer(fb)
CallRelease ==
  /\ pc = "idle" /\ Releases < MaxReleases
  /\ pc' = "release" /\ retTo' = "caller" /\ entry' = Snapshot
  /\ log' = <<Call("release_framebuffer", 0)>>
  /\ faults' = {}
  /\ UNCHANGED <<fb, locals, kernel, heap, hist, ret, modes_in,
                 type_in>>

\* line 50 as it would be without the test
OwnsFdAlways(h) == TRUE

\* line 50: if (fb->fd)
OwnsFd(h) == h.fd # 0

\* lines 50-52: if (fb->fd) drmSetMaster(fb->fd); the result is ignored.  The
\* call can succeed on an open descriptor while no other descriptor is master
ReleaseSetMaster ==
  /\ pc = "release"
  /\ IF OwnsFd(fb)
       THEN /\ log' = Append(log, Call("drmSetMaster", fb.fd))
            /\ \/ master' = master
               \/ /\ fb.fd \in openFds /\ master \in {NoMaster, fb.fd}
                  /\ master' = fb.fd
            /\ pc' = "rel_crtc"
       ELSE /\ pc' = "rel_end"
            /\ UNCHANGED <<log, master>>
  /\ UNCHANGED <<retTo, fb, entry, locals, openFds, fbs, dumbs, maps, crtc, heap,
                 hist, ret, faults, modes_in,
                 type_in>>

\* the configurations a drmModeSetCrtc call with arguments read from freed
\* memory can leave
AnyCrtc == [buffer_id : {PriorFb} \cup FbIds, mode : {1, 2}]

\* lines 53-57: drmModeSetCrtc(fb->fd, fb->crtc->crtc_id, fb->crtc->buffer_id,
\* 0, 0, &fb->connector->connector_id, 1, fb->resolution);
\* drmModeFreeCrtc(fb->crtc).  The call needs an open descriptor that is
\* master, a connector and a mode; it may fail all the same
ReleaseCrtc ==
  /\ pc = "rel_crtc"
  /\ IF fb.crtc # NULL
       THEN LET c == heap[fb.crtc]
                crtcFreed == c.frees > 0
                connNull == fb.connector = NULL
                connFreed == ~connNull /\ heap[fb.connector].frees > 0
                modeNull == fb.resolution = NullMode
                modeFreed == ~modeNull
                               /\ heap[fb.resolution.connector].frees > 0
                garbage == crtcFreed \/ connFreed \/ modeFreed
                canSet == /\ fb.fd \in openFds /\ master = fb.fd
                          /\ ~connNull /\ ~modeNull
            IN  /\ faults' = faults
                      \cup (IF crtcFreed
                              THEN {"read freed crtc", "double free crtc"}
                              ELSE {})
                      \cup (IF connNull THEN {"null connector"} ELSE {})
                      \cup (IF connFreed THEN {"read freed connector"} ELSE {})
                      \cup (IF modeFreed THEN {"read freed mode"} ELSE {})
                /\ \/ /\ crtcFreed /\ pc' = "aborted"
                      /\ UNCHANGED <<crtc, heap, log>>
                   \/ /\ \/ crtc' = crtc
                         \/ /\ canSet /\ ~garbage
                            /\ crtc' =
                                 [buffer_id |-> c.buffer_id,
                                  mode |-> heap[fb.resolution.connector]
                                             .modes[fb.resolution.index + 1]
                                             .hdisplay]
                         \/ /\ canSet /\ garbage
                            /\ crtc' \in AnyCrtc
                      /\ heap' = Freed(heap, fb.crtc)
                      /\ log' = log \o <<Call("drmModeSetCrtc", fb.fd),
                                         Call("drmModeFreeCrtc", fb.crtc)>>
                      /\ pc' = "rel_fb"
       ELSE /\ pc' = "rel_fb"
            /\ UNCHANGED <<crtc, heap, log, faults>>
  /\ UNCHANGED <<retTo, fb, entry, locals, openFds, master, fbs, dumbs, maps,
                 hist, ret, modes_in,
                 type_in>>

\* lines 58-59 as they would be without the call
ReleaseFBSkipped ==
  /\ pc = "rel_fb"
  /\ pc' = "rel_conn"
  /\ UNCHANGED <<retTo, fb, entry, locals, kernel, heap, log, hist, ret, faults,
                 modes_in, type_in>>

\* lines 58-59: drmModeFreeFB(drmModeGetFB(fb->fd, fb->buffer_id)): the
\* description of the framebuffer is fetched and freed, the framebuffer stays
ReleaseFB ==
  /\ pc = "rel_fb"
  /\ IF fb.buffer_id # 0
       THEN log' = log \o <<Call("drmModeGetFB", fb.fd),
                            Call("drmModeFreeFB", fb.buffer_id)>>
       ELSE UNCHANGED log
  /\ pc' = "rel_conn"
  /\ UNCHANGED <<retTo, fb, entry, locals, kernel, heap, hist, ret, faults,
                 modes_in,
                 type_in>>

\* lines 61-64 as they would be without fb->resolution = 0
ReleaseConnectorKeepsMode ==
  /\ pc = "rel_conn"
  /\ IF fb.connector # NULL
       THEN LET again == heap[fb.connector].frees > 0
            IN  /\ faults' = IF again
                               THEN faults \cup {"double free connector"}
                               ELSE faults
                /\ \/ /\ again /\ pc' = "aborted"
                      /\ UNCHANGED <<heap, log>>
                   \/ /\ heap' = Freed(heap, fb.connector)
                      /\ log' = Append(log, Call("drmModeFreeConnector",
                                                 fb.connector))
                      /\ pc' = "rel_dumb"
       ELSE /\ pc' = "rel_dumb"
            /\ UNCHANGED <<heap, log, faults>>
  /\ UNCHANGED <<retTo, fb, entry, locals, kernel, hist, ret, modes_in,
                 type_in>>

\* lines 61-64: drmModeFreeConnector(fb->connector); fb->resolution = 0
ReleaseConnector ==
  /\ pc = "rel_conn"
  /\ IF fb.connector # NULL
       THEN LET again == heap[fb.connector].frees > 0
            IN  /\ faults' = IF again
                               THEN faults \cup {"double free connector"}
                               ELSE faults
                /\ \/ /\ again /\ pc' = "aborted"
                      /\ UNCHANGED <<heap, log, fb>>
                   \/ /\ heap' = Freed(heap, fb.connector)
                      /\ log' = Append(log, Call("drmModeFreeConnector",
                                                 fb.connector))
                      /\ fb' = [fb EXCEPT !.resolution = NullMode]
                      /\ pc' = "rel_dumb"
       ELSE /\ pc' = "rel_dumb"
            /\ UNCHANGED <<heap, log, fb, faults>>
  /\ UNCHANGED <<retTo, entry, locals, kernel, hist, ret, modes_in,
                 type_in>>

\* lines 65-66: ioctl(fb->fd, DRM_IOCTL_MODE_DESTROY_DUMB, fb->dumb_framebuffer):
\* the structure is passed where the kernel expects its address, so the
\* kernel reads whatever that argument slot holds: the buffer is destroyed
\* or the call fails
ReleaseDumb ==
  /\ pc = "rel_dumb"
  /\ IF fb.dumb_framebuffer.handle # 0
       THEN /\ log' = Append(log, Call("DRM_IOCTL_MODE_DESTROY_DUMB", fb.fd))
            /\ faults' = faults \cup {"struct passed for pointer"}
            /\ \/ dumbs' = dumbs
               \/ /\ <<fb.fd, fb.dumb_framebuffer.handle>> \in dumbs
                  /\ fb.fd \in openFds
                  /\ dumbs' = dumbs \ {<<fb.fd, fb.dumb_framebuffer.handle>>}
       ELSE UNCHANGED <<log, faults, dumbs>>
  /\ pc' = "rel_close"
  /\ UNCHANGED <<retTo, fb, entry, locals, openFds, master, fbs, maps, crtc,
                 heap, hist, ret, modes_in,
                 type_in>>

\* line 67: close(fb->fd).  Closing the file gives up its mastership and
\* the kernel drops the framebuffers and buffer handles the file owns
ReleaseClose ==
  /\ pc = "rel_close"
  /\ log' = Append(log, Call("close", fb.fd))
  /\ IF fb.fd \in openFds
       THEN /\ openFds' = openFds \ {fb.fd}
            /\ master' = IF master = fb.fd THEN NoMaster ELSE master
            /\ fbs' = {f \in fbs : f[1] # fb.fd}
            /\ dumbs' = {d \in dumbs : d[1] # fb.fd}
       ELSE UNCHANGED <<openFds, master, fbs, dumbs>>
  /\ pc' = "rel_end"
  /\ UNCHANGED <<retTo, fb, entry, locals, maps, crtc, heap, hist, ret, faults,
                 modes_in,
                 type_in>>

\* line 70: release_framebuffer returns, to the caller or into line 210
ReleaseReturn ==
  /\ pc = "rel_end"
  /\ IF retTo = "get"
       THEN pc' = "get_ret" /\ UNCHANGED hist
       ELSE pc' = "idle" /\ hist' = Append(hist, "release")
  /\ UNCHANGED <<retTo, fb, entry, locals, kernel, heap, log, ret, faults,
                 modes_in,
                 type_in>>

(* ---------------------------- specification --------------------------- *)
Next ==
  \/ CallGet \/ Open \/ GetResources \/ ConnectorLoop \/ LoopExit
  \/ ConnectorCheck \/ ModesCheck \/ SelectResolution \/ CreateDumb
  \/ AddFB2 \/ GetEncoder \/ GetCrtc \/ MapDumb \/ Mmap \/ DropMaster
  \/ Cleanup \/ GetReturn
  \/ CallRelease \/ ReleaseSetMaster \/ ReleaseCrtc \/ ReleaseFB
  \/ ReleaseConnector \/ ReleaseDumb \/ ReleaseClose \/ ReleaseReturn

Spec == Init /\ [][Next]_vars

(* --------------------- mode selection on its own ---------------------- *)
\* no mode selected yet
NotYet == 0 - 9

\* every non-empty mode list up to MaxModes with every requested index from
\* below zero to beyond the end
InitSel ==
  /\ InitProgram
  /\ modes_in \in [modes : ModeLists(MaxModes) \ {<<>>},
                   sel : (0 - 2)..(MaxModes + 1),
                   out : {NotYet}]
  /\ type_in = <<>>

\* lines 125-140 applied to the input
ApplySelectMode ==
  /\ modes_in.out = NotYet
  /\ modes_in' = [modes_in EXCEPT !.out = SelectMode(modes_in.modes, modes_in.sel)]
  /\ UNCHANGED <<pc, retTo, fb, entry, locals, kernel, heap, log, hist, ret,
                 faults, type_in>>

SelNext == ApplySelectMode

SelSpec == InitSel /\ [][SelNext]_vars

(* ----------------------- name lookup on its own ----------------------- *)
InitName ==
  /\ InitProgram /\ modes_in = <<>>
  /\ type_in \in [type : TypeInputs, name : {""}]

\* lines 39-46 applied to the input
ApplyTypeName ==
  /\ type_in.name = ""
  /\ type_in' = [type_in EXCEPT !.name = connector_type_name(type_in.type)]
  /\ UNCHANGED <<pc, retTo, fb, entry, locals, kernel, heap, log, hist, ret,
                 faults, modes_in>>

NameNext == ApplyTypeName

NameSpec == InitName /\ [][NameNext]_vars

(* ------------------------------ properties ---------------------------- *)
Last(q) == q[Len(q)]
\* q ends with the sequence t
EndsWith(q, t) ==
  Len(q) >= Len(t) /\ SubSeq(q, Len(q) - Len(t) + 1, Len(q)) = t
\* the current top-level call made the call op
Has(op) == \E k \in 1..Len(log) : log[k][1] = op
\* objects of a kind that are live in the heap h
LiveIn(h, kind) == {p \in 1..Len(h) : h[p].kind = kind /\ h[p].frees = 0}
\* get_framebuffer has just returned; release_framebuffer has
GetDone == pc = "idle" /\ hist # <<>> /\ Last(hist) # "release"
ReleaseDone == pc = "idle" /\ hist # <<>> /\ Last(hist) = "release"
\* positions inside get_framebuffer itself
GetPcs == {"open", "getres", "loop", "found", "modes", "select", "create",
           "addfb", "getenc", "getcrtc", "mapdumb", "mmap", "drop", "cleanup",
           "get_ret"}

\* C1: when get_framebuffer, called on a zeroed handle, has returned an
\* error, nothing it acquired is still held: no descriptor, connector, dumb
\* buffer, registered framebuffer or CRTC object beyond those held on entry
C1_FailedGetHoldsNothing ==
  (GetDone /\ ret # 0 /\ entry.fb = ZeroFb) =>
     /\ openFds = entry.openFds
     /\ LiveOf("connector") = LiveIn(entry.heap, "connector")
     /\ dumbs = entry.dumbs
     /\ fbs = entry.fbs
     /\ LiveOf("crtc") = LiveIn(entry.heap, "crtc")

\* C2: every error return of get_framebuffer comes after the Cleanup step,
\* the call of release_framebuffer on the handle; stated for the executions
\* that opened the device, the ones that have something to release
C2_ErrorReturnRanCleanup ==
  (GetDone /\ ret # 0 /\ ~Has("release_framebuffer")) =>
     \E k \in 1..Len(log) : log[k] = Call("open", 0 - 1)

\* C3: a second release_framebuffer right after the first, after a
\* successful get_framebuffer, frees nothing again (no object is freed
\* twice) and makes no call but the drmSetMaster attempt
C3_SecondReleaseDoesNothing ==
  (pc = "idle" /\ EndsWith(hist, <<"get_ok", "release", "release">>)) =>
     /\ \A p \in 1..Len(heap) : heap[p].frees <= 1
     /\ \A k \in 1..Len(log) :
          log[k][1] \in {"release_framebuffer", "drmSetMaster"}

\* C4: after a successful get_framebuffer and one release_framebuffer
\* nothing the acquisition acquired is left: no registered framebuffer, dumb
\* buffer, connector, CRTC object, device resources, mapping or descriptor
C4_ReleaseLeavesNothing ==
  (pc = "idle" /\ hist = <<"get_ok", "release">>) =>
     /\ fbs = {} /\ dumbs = {}
     /\ LiveOf("connector") = {} /\ LiveOf("crtc") = {}
     /\ LiveOf("res") = {}
     /\ maps = {} /\ openFds = {}

\* C5: after a successful get_framebuffer and one release_framebuffer the
\* controller shows the framebuffer and the mode it showed before
C5_ControllerRoundTrip ==
  (pc = "idle" /\ hist = <<"get_ok", "release">>) =>
     crtc = [buffer_id |-> PriorFb, mode |-> PriorMode]

\* C6: release_framebuffer on a zeroed handle changes nothing: the handle,
\* the descriptors, the kernel objects and the heap are as on entry, and it
\* makes no call
C6_ReleaseZeroIsNoOp ==
  (ReleaseDone /\ entry.fb = ZeroFb) =>
     /\ fb = ZeroFb
     /\ Snapshot = entry
     /\ log = <<Call("release_framebuffer", 0)>>
     /\ faults = {}

\* C6 witness: release_framebuffer ran on a zeroed handle while a
\* descriptor was open that it might have closed
C6_Witness == ReleaseDone /\ entry.fb = ZeroFb /\ openFds # {}

\* C7: release_framebuffer on a partly filled handle frees what the handle
\* owns, field by field (the CRTC object and the connector it points to),
\* and uses no field the handle does not own
C7_ReleaseFreesWhatIsOwned ==
  ReleaseDone =>
     /\ \A p \in LiveIn(entry.heap, "crtc") :
          entry.fb.crtc = p => heap[p].frees = 1
     /\ \A p \in LiveIn(entry.heap, "connector") :
          entry.fb.connector = p => heap[p].frees = 1
     /\ "null connector" \notin faults

\* C8: a get_framebuffer that returns 0 called drmDropMaster right after
\* mmap and made no kernel call after it, and the descriptor it opened is
\* not master; an execution on its way to an error return, or returned
\* with one, never called drmDropMaster
C8_DropMasterLastOnSuccess ==
  /\ (GetDone /\ ret = 0) =>
        /\ master # fb.fd
        /\ \E k \in 2..Len(log) :
             /\ log[k] = Call("drmDropMaster", fb.fd)
             /\ log[k - 1] = Call("mmap", fb.fd)
             /\ \A j \in (k + 1)..Len(log) : log[j][1] = "drmModeFreeEncoder"
  /\ (GetDone /\ ret # 0) => ~Has("drmDropMaster")
  /\ (pc \in GetPcs \cup {"release", "rel_crtc", "rel_fb", "rel_conn",
                          "rel_dumb", "rel_close", "rel_end"}
        /\ retTo = "get") => ~Has("drmDropMaster")
  /\ (pc \in GetPcs /\ Has("drmDropMaster")) =>
        err = 0 /\ fb.data \notin {NULL, MAP_FAILED}

\* C8 witness: a successful get_framebuffer whose descriptor was master
\* until the drop
C8_Witness ==
  GetDone /\ ret = 0 /\ entry.master = NoMaster /\ master = NoMaster

\* the mode the selection rule names: the index when it is in range, else
\* the highest preferred index, else 0
ExpectedMode(modes, sel) ==
  LET P == {k \in 0..(Len(modes) - 1) : modes[k + 1].preferred}
  IN  IF sel \in 0..(Len(modes) - 1) THEN sel
      ELSE IF P = {} THEN 0
      ELSE CHOOSE k \in P : \A j \in P : j <= k

\* C9: for every non-empty mode list and requested index the mode selected
\* is the requested one when the index is in range, else the last
\* preferred one, else mode 0
C9_ModeSelection ==
  modes_in # <<>> /\ modes_in.out # NotYet =>
     modes_in.out = ExpectedMode(modes_in.modes, modes_in.sel)

\* C9 witness: preferred at indices 1 and 3 only, automatic selection,
\* mode 3 selected
C9_Witness ==
  /\ modes_in # <<>> /\ modes_in.sel = 0 - 1 /\ modes_in.out = 3
  /\ Len(modes_in.modes) = 4
  /\ {k \in 0..3 : modes_in.modes[k + 1].preferred} = {1, 3}

\* the connector the loop of the current get_framebuffer call broke on:
\* the pointer its last fetch returned, unless that one was freed
MatchedConnector ==
  LET F == {k \in 1..Len(log) : log[k][1] = "drmModeGetConnectorCurrent"}
      k == CHOOSE x \in F : \A y \in F : y <= x
  IN  IF F = {} THEN NULL
      ELSE IF k < Len(log) /\ log[k + 1][1] = "drmModeFreeConnector" THEN NULL
      ELSE log[k][2]
\* the current get_framebuffer call matched a connector that has no modes
ZeroModesRun ==
  /\ MatchedConnector # NULL
  /\ heap[MatchedConnector].frees = 0
  /\ heap[MatchedConnector].modes = <<>>

\* C10: get_framebuffer on a matched connector with zero modes returns
\* -EINVAL; it never gets past the mode check, makes no CREATE_DUMB and no
\* AddFB2 call, and leaves the dumb buffers, the registered framebuffers
\* and the handle's buffer fields as they were on entry
C10_ZeroModesFails ==
  /\ (GetDone /\ ZeroModesRun) =>
        /\ ret = 0 - EINVAL
        /\ ~Has("DRM_IOCTL_MODE_CREATE_DUMB") /\ ~Has("drmModeAddFB2")
        /\ dumbs = entry.dumbs /\ fbs = entry.fbs
        /\ fb.buffer_id = entry.fb.buffer_id
        /\ fb.dumb_framebuffer = entry.fb.dumb_framebuffer
  /\ (pc \in GetPcs /\ connector # NULL /\ heap[connector].modes = <<>>) =>
        /\ pc \in {"found", "modes"}
        /\ ~Has("DRM_IOCTL_MODE_CREATE_DUMB") /\ ~Has("drmModeAddFB2")

\* C10 witness: get_framebuffer returned after matching the connector
\* without modes
C10_Witness == GetDone /\ ZeroModesRun

\* the name of the table entry whose type field is t
EntryName(t) ==
  LET e == CHOOSE x \in {connector_type_names[k] : k \in 1..ARRAY_SIZE} :
             x[1] = t
  IN  e[2]
TableTypes == {connector_type_names[k][1] : k \in 1..ARRAY_SIZE}
\* the names the interface description gives as examples, by
\* DRM_MODE_CONNECTOR_* value
DocumentedVocabulary ==
  {<<1, "VGA">>, <<11, "HDMI-A">>, <<14, "eDP">>, <<10, "DisplayPort">>}
\* the same with the name the table has for DRM_MODE_CONNECTOR_DisplayPort
TableVocabulary ==
  {<<1, "VGA">>, <<11, "HDMI-A">>, <<14, "eDP">>, <<10, "DP">>}
NameFound == type_in # <<>> /\ type_in.name # ""

\* C11 as stated: a type inside the table range gets the name of the entry
\* with that type field, in the documented vocabulary ("VGA", "HDMI-A",
\* "eDP", "DisplayPort"); a type at or beyond the table's end gets "INVALID"
C11_DocumentedNames ==
  NameFound =>
     /\ type_in.type < ARRAY_SIZE =>
          /\ type_in.name = EntryName(type_in.type)
          /\ \A d \in DocumentedVocabulary :
               d[1] = type_in.type => type_in.name = d[2]
     /\ type_in.type >= ARRAY_SIZE => type_in.name = "INVALID"

\* C11 amended: the same with "DP" as the name of the DisplayPort type
C11_TableNames ==
  NameFound =>
     /\ type_in.type < ARRAY_SIZE =>
          /\ type_in.type \in TableTypes
          /\ type_in.name = EntryName(type_in.type)
          /\ \A d \in TableVocabulary :
               d[1] = type_in.type => type_in.name = d[2]
     /\ type_in.type >= ARRAY_SIZE => type_in.name = "INVALID"

\* C11 witness: DRM_MODE_CONNECTOR_DisplayPort was looked up and the table's
\* name for it came back
C11_Witness ==
  NameFound /\ type_in.type = 10 /\ type_in.name = "DP"

\* the position of the first call of op in the log of the current top-level
\* call, 0 when there is none
FirstPos(op) ==
  LET F == {k \in 1..Len(log) : log[k][1] = op}
  IN  IF F = {} THEN 0 ELSE CHOOSE k \in F : \A j \in F : k <= j
\* the calls that give a resource back
ReleaseOps == {"drmModeSetCrtc", "drmModeFreeFB", "DRM_IOCTL_MODE_DESTROY_DUMB",
               "drmModeFreeConnector", "close"}
IsReleaseOp(c) == c[1] \in ReleaseOps
\* the names of the calls in q
OpsOf(q) == [k \in 1..Len(q) |-> q[k][1]]
\* the release calls made since Cleanup called release_framebuffer
CleanupReleases ==
  OpsOf(SelectSeq(SubSeq(log, FirstPos("release_framebuffer") + 1, Len(log)),
                  IsReleaseOp))
\* the release calls that undo, last first, what the current get_framebuffer
\* call acquired before it failed: the CRTC object once drmModeGetCrtc
\* returned one, the registered framebuffer once drmModeAddFB2 succeeded,
\* the dumb buffer once CREATE_DUMB succeeded, the connector and the device
ReverseOfAcquired ==
  (IF Has("DRM_IOCTL_MODE_MAP_DUMB") THEN <<"drmModeSetCrtc">> ELSE <<>>)
  \o (IF Has("drmModeGetEncoder") THEN <<"drmModeFreeFB">> ELSE <<>>)
  \o (IF Has("drmModeAddFB2")
        THEN <<"DRM_IOCTL_MODE_DESTROY_DUMB">> ELSE <<>>)
  \o <<"drmModeFreeConnector", "close">>

\* the steps of get_framebuffer that make one call each, in program order
StepOrder ==
  <<"open", "drmModeGetResources", "DRM_IOCTL_MODE_CREATE_DUMB",
    "drmModeAddFB2", "drmModeGetEncoder", "drmModeGetCrtc",
    "DRM_IOCTL_MODE_MAP_DUMB", "mmap", "drmDropMaster">>
StepOps == {StepOrder[k] : k \in 1..Len(StepOrder)}
IsStepOp(c) == c[1] \in StepOps
\* the step calls of the current get_framebuffer call, up to Cleanup
GetSteps ==
  LET r == FirstPos("release_framebuffer")
  IN  OpsOf(SelectSeq(SubSeq(log, 1, IF r = 0 THEN Len(log) ELSE r - 1),
                      IsStepOp))
\* the value err takes when the step that made the last step call fails
FailedStepError ==
  LET op == Last(GetSteps)
  IN  IF op \in {"DRM_IOCTL_MODE_CREATE_DUMB", "DRM_IOCTL_MODE_MAP_DUMB"}
        THEN 0 - 1
      ELSE IF op = "mmap" THEN ENOMEM
      ELSE 0 - EINVAL

\* C12: when get_framebuffer has returned after a failed step sent it to
\* Cleanup, Cleanup made the release calls for what had been acquired, in
\* the reverse of the order of acquisition (CRTC state, registered buffer,
\* dumb buffer, connector, device), and the value returned is the error of
\* the failed step
C12_CleanupReverseOrder ==
  (GetDone /\ ret # 0 /\ Has("release_framebuffer")) =>
     /\ CleanupReleases = ReverseOfAcquired
     /\ ret = FailedStepError

\* release_framebuffer has just returned from a call on the handle the
\* successful get_framebuffer call before it filled
ReleasedAcquired == ReleaseDone /\ EndsWith(hist, <<"get_ok", "release">>)
\* the calls of release_framebuffer on a handle that holds everything
FullReleaseOrder ==
  <<"release_framebuffer", "drmSetMaster", "drmModeSetCrtc", "drmModeFreeCrtc",
    "drmModeGetFB", "drmModeFreeFB", "drmModeFreeConnector",
    "DRM_IOCTL_MODE_DESTROY_DUMB", "close">>

\* C13: release_framebuffer on a fully acquired handle makes its calls in
\* this order and no other: drmSetMaster, drmModeSetCrtc (and the free of
\* the saved CRTC), the fetch and free of the framebuffer, the free of the
\* connector, DESTROY_DUMB, close; close is the last call, so none uses the
\* descriptor after it, and drmModeSetCrtc read a live connector and mode
C13_ReleaseOrder ==
  ReleasedAcquired =>
     /\ OpsOf(log) = FullReleaseOrder
     /\ Last(log) = Call("close", fb.fd)
     /\ FirstPos("drmModeSetCrtc") < FirstPos("drmModeFreeConnector")
     /\ faults \cap {"read freed connector", "read freed mode",
                     "null connector"} = {}

\* C13 witness: a release of a fully acquired handle has returned after
\* restoring the controller and closing the descriptor
C13_Witness ==
  /\ ReleasedAcquired
  /\ Has("drmModeSetCrtc") /\ Has("close")
  /\ fb.fd \notin openFds

C15_NoReadOfMissingFirstEntry ==
  faults \cap {"read encoders[0]", "read crtcs[0]"} = {}

\* the log is that of a get_framebuffer call
GetLog == log # <<>> /\ log[1][1] = "open"
\* the connectors live now that were not live when the call was made
NewConnectors == LiveOf("connector") \ LiveIn(entry.heap, "connector")
\* the connector loop of the current get_framebuffer call ran to the end of
\* the list without a match
Exhausted ==
  /\ GetLog /\ Has("drmModeGetConnectorCurrent")
  /\ \/ pc = "found" /\ connector = NULL
     \/ GetDone /\ Last(log)[1] = "drmModeFreeConnector"
     \/ GetDone /\ Last(log) = Call("drmModeGetConnectorCurrent", NULL)

\* C16: the connector loop of get_framebuffer holds at most one connector
\* at a time: a connector it fetched is freed before the next fetch unless
\* it is the match, and when the list is exhausted without a match no
\* connector of this call is held and the call returns -EINVAL
C16_OneLiveConnector ==
  GetLog =>
     /\ pc \in GetPcs => Cardinality(NewConnectors) <= 1
     /\ LET G == {j \in 1..Len(log) :
                    log[j][1] = "drmModeGetConnectorCurrent"}
        IN  \A k \in G :
              (log[k][2] # NULL /\ \E j \in G : k < j)
                => log[k + 1] = Call("drmModeFreeConnector", log[k][2])
     /\ Exhausted =>
          /\ NewConnectors = {}
          /\ GetDone => ret = 0 - EINVAL

\* C16 witness: the loop freed a connector that did not match, found no
\* other, and get_framebuffer has returned
C16_Witness ==
  /\ Exhausted /\ GetDone
  /\ Has("drmModeFreeConnector")
  /\ ~Has("DRM_IOCTL_MODE_CREATE_DUMB")

ConnectorOps == {"drmModeGetConnectorCurrent", "drmModeFreeConnector"}
\* get_framebuffer has returned an error after Cleanup, and the last step
\* call it made was op
FailedAt(op) ==
  /\ GetDone /\ ret # 0 /\ Has("release_framebuffer")
  /\ Last(GetSteps) = op

\* C17: the step calls of get_framebuffer are made in program order (open,
\* drmModeGetResources, the connector loop, CREATE_DUMB, drmModeAddFB2,
\* drmModeGetEncoder, drmModeGetCrtc, MAP_DUMB, mmap, drmDropMaster), each
\* once and none skipped; once a step has failed the function is at Cleanup
\* or has returned, so no later step call is made, and a call that returns
\* an error has not reached drmDropMaster
C17_StepsInSequence ==
  GetLog =>
     LET steps == GetSteps
         r == FirstPos("release_framebuffer")
         g == FirstPos("drmModeGetResources")
         c == FirstPos("DRM_IOCTL_MODE_CREATE_DUMB")
     IN  /\ steps = SubSeq(StepOrder, 1, Len(steps))
         /\ \A k \in 1..(IF r = 0 THEN Len(log) ELSE r - 1) :
              log[k][1] \in ConnectorOps
                => /\ g \in 1..(k - 1)
                   /\ c # 0 => k < c
         /\ (pc \in GetPcs /\ err # 0) => pc \in {"cleanup", "get_ret"}
         /\ (GetDone /\ ret # 0) => Len(steps) < Len(StepOrder)
         /\ (GetDone /\ ret = 0) => steps = StepOrder

\* C17 witness: get_framebuffer has returned an error after drmModeAddFB2
\* failed, having made no call of a later step
C17_Witness ==
  /\ FailedAt("drmModeAddFB2")
  /\ ret = 0 - EINVAL
  /\ ~Has("drmModeGetEncoder") /\ ~Has("mmap")

\* positions inside a release_framebuffer call
ReleasePcs == {"release", "rel_crtc", "rel_fb", "rel_conn", "rel_dumb",
               "rel_close", "rel_end"}
\* inside a get_framebuffer call, its Cleanup's release_framebuffer included
InGet == pc \in GetPcs \/ (pc \in ReleasePcs /\ retTo = "get")

\* C18: get_framebuffer leaves the controller showing the framebuffer and
\* the mode it showed when the call was made, at every point of a call on a
\* zeroed handle, at every point before Cleanup and after every successful
\* return; no drmModeSetCrtc call is made and the CRTC object captured holds
\* what the controller shows
C18_GetKeepsControllerConfig ==
  /\ ((InGet \/ GetDone) /\ entry.fb = ZeroFb) =>
        crtc = entry.crtc /\ ~Has("drmModeSetCrtc")
  /\ pc \in GetPcs \ {"get_ret"} =>
        crtc = entry.crtc /\ ~Has("drmModeSetCrtc")
  /\ (GetDone /\ ret = 0) =>
        /\ crtc = entry.crtc /\ ~Has("drmModeSetCrtc")
        /\ heap[fb.crtc].buffer_id = crtc.buffer_id
        /\ heap[fb.crtc].mode = crtc.mode

\* C18 witness: get_framebuffer on a zeroed handle has registered a new
\* framebuffer, captured the CRTC and returned 0
C18_Witness ==
  /\ GetDone /\ ret = 0 /\ entry.fb = ZeroFb
  /\ fb.crtc # NULL /\ fb.buffer_id # crtc.buffer_id
  /\ Has("drmModeGetCrtc")

\* the descriptor the current get_framebuffer call opened
OpenedFd == log[1][2]
\* every field of the handle holds what the current get_framebuffer call
\* acquired: its descriptor, a live connector and a mode of it, a live CRTC
\* object, a registered framebuffer, a dumb buffer and a mapping
FullyPopulated ==
  /\ fb.fd = OpenedFd /\ fb.fd \in openFds
  /\ fb.connector # NULL /\ heap[fb.connector].kind = "connector"
  /\ heap[fb.connector].frees = 0
  /\ fb.resolution # NullMode /\ fb.resolution.connector = fb.connector
  /\ fb.crtc # NULL /\ heap[fb.crtc].kind = "crtc" /\ heap[fb.crtc].frees = 0
  /\ fb.buffer_id # 0 /\ <<fb.fd, fb.buffer_id>> \in fbs
  /\ fb.dumb_framebuffer.handle # 0
  /\ <<fb.fd, fb.dumb_framebuffer.handle>> \in dumbs
  /\ fb.data \in maps

\* C19: when get_framebuffer has returned, the value is 0 exactly when
\* every step was made and none failed, and exactly then the handle is fully
\* populated; a call that stopped at a failed step returned a non-zero value
C19_ZeroIffAllSucceeded ==
  (GetDone /\ GetLog) =>
     /\ ret = 0 <=> GetSteps = StepOrder
     /\ ret = 0 <=> FullyPopulated
     /\ ret # 0 <=> (\/ Len(GetSteps) < Len(StepOrder)
                     \/ Has("release_framebuffer"))

\* C19 witness: get_framebuffer has returned the positive errno of a failed
\* mmap, with the handle not populated
C19_Witness ==
  /\ FailedAt("mmap") /\ ret = ENOMEM
  /\ fb.data = MAP_FAILED /\ ~FullyPopulated

\* the handle's fd, connector and resolution are as the call found them
EntryFields ==
  /\ fb.fd = entry.fb.fd
  /\ fb.connector = entry.fb.connector
  /\ fb.resolution = entry.fb.resolution
\* the calls release_framebuffer makes on the descriptor of the handle
FdOps == {"drmSetMaster", "drmModeSetCrtc", "drmModeGetFB",
          "DRM_IOCTL_MODE_DESTROY_DUMB", "close"}

\* C20: get_framebuffer stores fd, connector and resolution in the handle
\* only after mmap succeeded: up to the drmDropMaster step, and in a failing
\* call up to the call of release_framebuffer by Cleanup, the three fields
\* are as on entry, and every call that release_framebuffer then makes on a
\* descriptor is made on the fd the handle had on entry (none at all for a
\* zeroed handle), not on the descriptor this call opened
C20_HandleWrittenAfterMmap ==
  /\ pc \in GetPcs \ {"cleanup", "get_ret"} => EntryFields
  /\ (pc = "cleanup" /\ err # 0) => EntryFields
  /\ (pc = "release" /\ retTo = "get") => EntryFields
  /\ (pc \in GetPcs /\ retTo # "get" /\ ~EntryFields) =>
        /\ Has("drmDropMaster") /\ err = 0
        /\ fb.data \in maps
  /\ (pc \in ReleasePcs /\ retTo = "get") =>
        /\ fb.fd = entry.fb.fd
        /\ \A k \in (FirstPos("release_framebuffer") + 1)..Len(log) :
             log[k][1] \in FdOps => log[k][2] = entry.fb.fd
        /\ entry.fb = ZeroFb
             => Last(log) = Call("release_framebuffer", 0)

\* C20 witness: Cleanup of a failing call on a zeroed handle has called
\* release_framebuffer, and the handle's fd is 0 while the descriptor the
\* call opened is open
C20_Witness ==
  /\ pc = "release" /\ retTo = "get" /\ entry.fb.fd = 0
  /\ fb.fd = 0 /\ fd # 0 /\ fd \in openFds

====
